---- MODULE Spec2Model ----
(***************************************************************************)
(* Model of hardFault_handler.c: the Cortex-M4 hard fault handler that     *)
(* saves the SCB fault registers, the stacked core registers and the stack *)
(* of the violating context to a persistent memory region and reboots.     *)
(*                                                                         *)
(* A uint32_t is a pair <<hi, lo>> of 16-bit halves, so that the 32-bit    *)
(* wrap-around of the source's arithmetic is kept exactly.  Memory is a    *)
(* sequence of bytes; words are stored little-endian as on the target.     *)
(***************************************************************************)
EXTENDS Integers, Sequences, FiniteSets, TLC

VARIABLES
    DEBUG,               \* build flag: #ifdef DEBUG (line 138)
    capacity,            \* ERROR_HANDELING_MEMORY_SIZE of the build, in bytes
    region,              \* the bytes at ERROR_HANDELING_MEMORY_ADDRESS .. +capacity-1
    overrun,             \* some memory_erase/memory_write touched a byte outside the region
    SCB,                 \* SCB->CFSR, HFSR, DFSR, MMFAR, BFAR, AFSR at the trap
    PSP,                 \* the live process stack pointer, __get_PSP()
    sp,                  \* pulFaultStackAddress, handed over by HardFault_Handler
    frame,               \* the eight words at sp: R0, R1, R2, R3, R12, LR, PC, PSR
    seed,                \* the contents of the memory above the stacked frame
    pc,                  \* position of the processor
    memoryWriteAddress,  \* local of prvGetRegistersFromStack
    stackBase,           \* local of prvGetRegistersFromStack
    NumOfbyteToWrite,    \* local of prvGetRegistersFromStack
    buffer,              \* the caller's buffer of the last hardFault_readSavedData
    readRet,             \* the value the last hardFault_readSavedData returned
    lastCall,            \* the last thing that ran: "boot", "read", "erase", "trap"
    slot,                \* the region: "initial", "erased" (by the consumer), "capturing", "captured"
    prevLen              \* length of the record the region held when the current capture began

vars == <<DEBUG, capacity, region, overrun, SCB, PSP, sp, frame, seed, pc,
          memoryWriteAddress, stackBase, NumOfbyteToWrite, buffer, readRet,
          lastCall, slot, prevLen>>

----------------------------------------------------------------------------
(* uint32_t arithmetic *)

Half == 256 * 256

U32(hi, lo) == <<hi, lo>>

\* a small natural number as a uint32_t
ToU32(n) == <<(n \div Half) % Half, n % Half>>

Add32(a, b) ==
    LET lo == a[2] + b[2]
        hi == a[1] + b[1] + (lo \div Half)
    IN  <<hi % Half, lo % Half>>

Sub32(a, b) ==
    LET lo == a[2] - b[2]
        borrow == IF lo < 0 THEN 1 ELSE 0
        hi == a[1] - b[1] - borrow
    IN  <<(hi + Half) % Half, (lo + Half) % Half>>

Lt32(a, b) == a[1] < b[1] \/ (a[1] = b[1] /\ a[2] < b[2])

MIN(a, b) == IF Lt32(a, b) THEN a ELSE b

\* the four bytes of a word in memory (little-endian) and back
WordBytes(w) == <<w[2] % 256, w[2] \div 256, w[1] % 256, w[1] \div 256>>

WordAt(mem, off) ==
    <<mem[off + 3] + 256 * mem[off + 4], mem[off + 1] + 256 * mem[off + 2]>>

----------------------------------------------------------------------------
(* platform constants *)

\* the value memset stores in memory_erase
ErasedByte == 0

\* sizeof(SCB_registers_t), sizeof(core_registers_t): packed structs of uint32_t
SizeofSCB == 24

SizeofCore == 32

\* ERROR_HANDELING_MEMORY_ADDRESS: PROG_RAM_END of the linker file (0x2001F000 here)
ERROR_HANDELING_MEMORY_ADDRESS == U32(8193, 61440)

\* _estack of the linker file (0x20010000 here)
estack == U32(8193, 0)

\* 0xFFFFFFFF
Sentinel == U32(Half - 1, Half - 1)

----------------------------------------------------------------------------
(* the storage adapter *)

\* byte offset of address inside the region (addresses used are at or above its base)
OffsetOf(address) == Sub32(address, ERROR_HANDELING_MEMORY_ADDRESS)[2]

\* memory_erase(address, length) on the region's bytes
memory_erase(mem, address, length) ==
    [i \in 1..Len(mem) |->
        IF i - 1 >= OffsetOf(address) /\ Lt32(ToU32(i - 1 - OffsetOf(address)), length)
        THEN ErasedByte ELSE mem[i]]

\* memory_write(address, data, length) on the region's bytes; data[k] is the k-th source byte
memory_write(mem, address, data, length) ==
    [i \in 1..Len(mem) |->
        IF i - 1 >= OffsetOf(address) /\ Lt32(ToU32(i - 1 - OffsetOf(address)), length)
        THEN data[i - 1 - OffsetOf(address)] ELSE mem[i]]

\* whether an erase/write of length bytes at address leaves [base, base + cap)
Outside(cap, address, length) ==
    /\ length # ToU32(0)
    /\ \/ OffsetOf(address) > cap
       \/ Lt32(ToU32(cap - OffsetOf(address)), length)

\* memory_read(address, data, length): bytes past the region come from whatever lies there
memory_read(mem, length, fill) ==
    [i \in 1..length |-> IF i <= Len(mem) THEN mem[i] ELSE fill]

----------------------------------------------------------------------------
(* the context locator *)

\* getMainStackBase(): the linker's _estack
getMainStackBase == estack

\* the constant size getTaskStackBase adds to sp
TaskStackSize == 1024

\* getTaskStackBase(sp)
getTaskStackBase(s) == Add32(s, ToU32(TaskStackSize))

\* the comparison with the PSP inverted
getStackBase_Inverted(s, psp) ==
    IF s # psp THEN getTaskStackBase(s) ELSE getMainStackBase

\* getStackBase(sp): process context when sp equals the live PSP
getStackBase(s, psp) ==
    IF s = psp THEN getTaskStackBase(s) ELSE getMainStackBase

----------------------------------------------------------------------------
(* the machine state a trap can find *)

\* main stack pointers: 64, 40, 16 and 0 bytes below _estack, and 8 bytes above it
MainSPs ==
    { Sub32(estack, ToU32(64)), Sub32(estack, ToU32(40)), Sub32(estack, ToU32(16)),
      estack, Add32(estack, ToU32(8)) }

\* 0x20000400 and 0xFFFFFE00
ProcessSPs == { U32(8192, 1024), U32(Half - 1, 65024) }

\* pairs of the six SCB registers (CFSR, HFSR, DFSR, MMFAR, BFAR, AFSR) and the eight
\* stacked words (R0, R1, R2, R3, R12, LR, PC, PSR); the PCs are 0x08001234, 0x0800ABCC
Machines ==
    { << << U32(0, 33280), U32(16384, 0), U32(0, 0), U32(57344, 60712), U32(8192, 4100), U32(0, 0) >>,
         << U32(0, 1), U32(0, 2), U32(0, 3), U32(0, 4), U32(0, 18), U32(2048, 257),
            U32(2048, 4660), U32(8448, 0) >> >>,
      << << U32(256, 1), U32(32768, 2), U32(0, 8), U32(Half - 1, Half - 1), U32(4660, 22136), U32(43981, 1) >>,
         << U32(57005, 48879), U32(Half - 1, Half - 1), U32(0, 0), U32(8192, 512), U32(51966, 47806),
            U32(Half - 1, 65529), U32(2048, 43980), U32(24832, 14) >> >> }

\* how many different fillings of the memory above the stacked frame are tried
NumSeeds == 2

Seeds == { 61 + 100 * k : k \in 0..(NumSeeds - 1) }

\* the byte at address sp + k, as the capture reads it
StackByte(fr, sd, k) ==
    IF k < SizeofCore
    THEN WordBytes(fr[(k \div 4) + 1])[(k % 4) + 1]
    ELSE (sd + 3 * k) % 256

\* the copy started one register late, at &SCB->HFSR
SCBByte_FromHFSR(scb, k) == WordBytes(scb[(((k \div 4) + 1) % 6) + 1])[(k % 4) + 1]

\* the six SCB registers as they lie in memory from &SCB->CFSR on
SCBByte(scb, k) == WordBytes(scb[(k \div 4) + 1])[(k % 4) + 1]

\* region sizes of the builds considered
Capacities == { 16, 40, 56, 64 }

BufferSizes == { 48, 56 }

\* what the region holds at power-up, before anything was ever written
InitialRegions(cap) ==
    { [i \in 1..cap |-> 255], [i \in 1..cap |-> (17 * i) % 256] }

----------------------------------------------------------------------------
(* the state after construction *)

Init ==
    /\ DEBUG \in BOOLEAN
    /\ capacity \in Capacities
    /\ region \in InitialRegions(capacity)
    /\ overrun = FALSE
    /\ SCB = [k \in 1..6 |-> ToU32(0)]
    /\ PSP = ToU32(0)
    /\ sp = estack
    /\ frame = [k \in 1..8 |-> ToU32(0)]
    /\ seed = 0
    /\ pc = "run"
    /\ memoryWriteAddress = ERROR_HANDELING_MEMORY_ADDRESS
    /\ stackBase = ToU32(0)
    /\ NumOfbyteToWrite = ToU32(0)
    /\ buffer = << >>
    /\ readRet = FALSE
    /\ lastCall = "boot"
    /\ slot = "initial"
    /\ prevLen = 0

----------------------------------------------------------------------------
(* the record store *)

\* offset of core_registers.PC in core_dump_t
OffsetOfPC == 48

\* hardFault_readSavedData(buffer, bufferSize); with a buffer that ends before the PC
\* field, the field read lies outside what was copied and may hold anything
hardFault_readSavedData(bufferSize, fill, junk) ==
    /\ pc = "run"
    /\ buffer' = memory_read(region, bufferSize, fill)
    /\ readRet' = IF bufferSize >= OffsetOfPC + 4
                  THEN WordAt(buffer', OffsetOfPC) # Sentinel
                  ELSE junk
    /\ lastCall' = "read"
    /\ UNCHANGED <<DEBUG, capacity, region, overrun, SCB, PSP, sp, frame, seed, pc,
                   memoryWriteAddress, stackBase, NumOfbyteToWrite, slot, prevLen>>

\* hardFault_eraseSavedData(), called by the consumer
hardFault_eraseSavedData ==
    /\ pc = "run"
    /\ region' = memory_erase(region, ERROR_HANDELING_MEMORY_ADDRESS, ToU32(capacity))
    /\ overrun' = (overrun \/ Outside(capacity, ERROR_HANDELING_MEMORY_ADDRESS, ToU32(capacity)))
    /\ lastCall' = "erase"
    /\ slot' = "erased"
    /\ UNCHANGED <<DEBUG, capacity, SCB, PSP, sp, frame, seed, pc, memoryWriteAddress,
                   stackBase, NumOfbyteToWrite, buffer, readRet, prevLen>>

----------------------------------------------------------------------------
(* the capture *)

\* number of bytes of the region the last capture wrote, from offset 0 on
RecordLen ==
    IF capacity <= SizeofSCB THEN capacity
    ELSE IF Lt32(NumOfbyteToWrite, ToU32(capacity - SizeofSCB))
         THEN SizeofSCB + NumOfbyteToWrite[2]
         ELSE capacity

\* HardFault_Handler: the trap; r0 is the MSP or the PSP, by bit 2 of the exception LR.
\* Then lines 122..123 of prvGetRegistersFromStack.  The interrupted program never
\* runs again, so what its last call returned is gone.
HardFault_Handler(usePSP, msp, psp, scb, fr, sd) ==
    /\ pc = "run"
    /\ PSP' = psp
    /\ sp' = IF usePSP THEN psp ELSE msp
    /\ SCB' = scb
    /\ frame' = fr
    /\ seed' = sd
    /\ memoryWriteAddress' = ERROR_HANDELING_MEMORY_ADDRESS
    /\ prevLen' = IF slot = "captured" THEN RecordLen ELSE 0
    /\ pc' = "erase"
    /\ buffer' = << >>
    /\ readRet' = FALSE
    /\ lastCall' = "trap"
    /\ UNCHANGED <<DEBUG, capacity, region, overrun, stackBase, NumOfbyteToWrite, slot>>

\* the erase limited to the fixed part of core_dump_t
prvErase_HeaderOnly ==
    /\ pc = "erase"
    /\ region' = memory_erase(region, ERROR_HANDELING_MEMORY_ADDRESS, ToU32(SizeofSCB + SizeofCore))
    /\ overrun' = (overrun \/ Outside(capacity, ERROR_HANDELING_MEMORY_ADDRESS,
                                       ToU32(SizeofSCB + SizeofCore)))
    /\ slot' = "capturing"
    /\ pc' = "scb"
    /\ UNCHANGED <<DEBUG, capacity, SCB, PSP, sp, frame, seed, memoryWriteAddress,
                   stackBase, NumOfbyteToWrite, buffer, readRet, lastCall, prevLen>>

\* line 124: hardFault_eraseSavedData()
prvErase ==
    /\ pc = "erase"
    /\ region' = memory_erase(region, ERROR_HANDELING_MEMORY_ADDRESS, ToU32(capacity))
    /\ overrun' = (overrun \/ Outside(capacity, ERROR_HANDELING_MEMORY_ADDRESS, ToU32(capacity)))
    /\ slot' = "capturing"
    /\ pc' = "scb"
    /\ UNCHANGED <<DEBUG, capacity, SCB, PSP, sp, frame, seed, memoryWriteAddress,
                   stackBase, NumOfbyteToWrite, buffer, readRet, lastCall, prevLen>>

\* lines 127..129: save the SCB registers
prvWriteSCB ==
    /\ pc = "scb"
    /\ LET data == [k \in 0..(SizeofSCB - 1) |-> SCBByte(SCB, k)]
       IN  region' = memory_write(region, memoryWriteAddress, data, ToU32(SizeofSCB))
    /\ overrun' = (overrun \/ Outside(capacity, memoryWriteAddress, ToU32(SizeofSCB)))
    /\ memoryWriteAddress' = Add32(memoryWriteAddress, ToU32(SizeofSCB))
    /\ pc' = "stack"
    /\ UNCHANGED <<DEBUG, capacity, SCB, PSP, sp, frame, seed, stackBase,
                   NumOfbyteToWrite, buffer, readRet, lastCall, slot, prevLen>>

\* the space left taken as the whole region, the SCB block forgotten
SizeLeft_WholeRegion(cap, writeAddress) ==
    Sub32(Add32(ERROR_HANDELING_MEMORY_ADDRESS, ToU32(cap)), ERROR_HANDELING_MEMORY_ADDRESS)

\* line 134: sizeLeftForStackDump
SizeLeftForStackDump(cap, writeAddress) ==
    Sub32(Add32(ERROR_HANDELING_MEMORY_ADDRESS, ToU32(cap)), writeAddress)

\* lines 132..136: save the core registers and the stack of the crash
prvWriteStack ==
    /\ pc = "stack"
    /\ stackBase' = getStackBase(sp, PSP)
    /\ LET stackSize == Sub32(stackBase', sp)
           sizeLeftForStackDump == SizeLeftForStackDump(capacity, memoryWriteAddress)
       IN  NumOfbyteToWrite' = MIN(stackSize, sizeLeftForStackDump)
    /\ LET data == [k \in 0..capacity |-> StackByte(frame, seed, k)]
       IN  region' = memory_write(region, memoryWriteAddress, data, NumOfbyteToWrite')
    /\ overrun' = (overrun \/ Outside(capacity, memoryWriteAddress, NumOfbyteToWrite'))
    /\ slot' = "captured"
    /\ pc' = "end"
    /\ UNCHANGED <<DEBUG, capacity, SCB, PSP, sp, frame, seed, memoryWriteAddress,
                   buffer, readRet, lastCall, prevLen>>

\* lines 138..141: BKPT #01 and for (;;) of a DEBUG build
prvBreakpoint ==
    /\ pc = "end"
    /\ DEBUG
    /\ pc' = "halted"
    /\ UNCHANGED <<DEBUG, capacity, region, overrun, SCB, PSP, sp, frame, seed,
                   memoryWriteAddress, stackBase, NumOfbyteToWrite, buffer, readRet,
                   lastCall, slot, prevLen>>

\* the reset missing: the function returns into the interrupted program
NVIC_SystemReset_Returns ==
    /\ pc = "end"
    /\ ~DEBUG
    /\ pc' = "run"
    /\ UNCHANGED <<DEBUG, capacity, region, overrun, SCB, PSP, sp, frame, seed,
                   memoryWriteAddress, stackBase, NumOfbyteToWrite, buffer, readRet,
                   lastCall, slot, prevLen>>

\* line 142: NVIC_SystemReset()
NVIC_SystemReset ==
    /\ pc = "end"
    /\ ~DEBUG
    /\ pc' = "reset"
    /\ UNCHANGED <<DEBUG, capacity, region, overrun, SCB, PSP, sp, frame, seed,
                   memoryWriteAddress, stackBase, NumOfbyteToWrite, buffer, readRet,
                   lastCall, slot, prevLen>>

\* the start-up after the reset: the region lies outside the RAM the linker file
\* allocates and keeps its bytes (lines 10..15)
Boot ==
    /\ pc = "reset"
    /\ pc' = "run"
    /\ lastCall' = "boot"
    /\ UNCHANGED <<DEBUG, capacity, region, overrun, SCB, PSP, sp, frame, seed,
                   memoryWriteAddress, stackBase, NumOfbyteToWrite, buffer, readRet,
                   slot, prevLen>>

prvGetRegistersFromStack ==
    prvErase \/ prvWriteSCB \/ prvWriteStack \/ prvBreakpoint \/ NVIC_SystemReset

\* a trap in thread mode on the process stack, or on the main stack
Trap ==
    \E usePSP \in BOOLEAN, m \in Machines, sd \in Seeds :
        \E msp \in (IF usePSP THEN {estack} ELSE MainSPs),
           psp \in (IF usePSP THEN ProcessSPs ELSE {U32(8192, 1024)}) :
            HardFault_Handler(usePSP, msp, psp, m[1], m[2], sd)

Read ==
    \E bufferSize \in BufferSizes, fill \in {0, 255}, junk \in BOOLEAN :
        hardFault_readSavedData(bufferSize, fill, junk)

Next ==
    \/ Trap
    \/ prvGetRegistersFromStack
    \/ Boot
    \/ Read
    \/ hardFault_eraseSavedData

Spec == Init /\ [][Next]_vars

\* the processor executes the handler's instructions one after the other
LiveSpec ==
    /\ Spec
    /\ WF_vars(prvErase) /\ WF_vars(prvWriteSCB) /\ WF_vars(prvWriteStack)
    /\ WF_vars(prvBreakpoint) /\ WF_vars(NVIC_SystemReset)

----------------------------------------------------------------------------
(* helpers of the properties *)

CaptureDone == pc \in {"end", "halted", "reset"}

\* the region holds the record of the last trap (SCB, sp, frame, seed are its inputs)
Captured == slot = "captured" /\ pc # "erase"

\* region bytes from offset from (0-based) to the end hold what memory_erase stores
ErasedFrom(from) == \A i \in (from + 1)..capacity : region[i] = ErasedByte

\* the stack size of line 133 as a 32-bit difference
StackSize32 == Sub32(stackBase, sp)

\* min(n32, m) for a 32-bit n32 and a natural m
MinNat(n32, m) == IF Lt32(n32, ToU32(m)) THEN n32[2] ELSE m

----------------------------------------------------------------------------
(* C1 *)

\* C1: after eraseRecord, a readRecord with a buffer of at least 56 bytes returns
\* false, and the Program Counter field of the erased region reads 0xFFFFFFFF.
C1_EraseThenReadAbsent ==
    (lastCall = "read" /\ slot = "erased" /\ Len(buffer) >= 56 /\ capacity >= 56)
        => (readRet = FALSE /\ WordAt(region, OffsetOfPC) = Sentinel)

----------------------------------------------------------------------------
(* C2 *)

\* C2: with a capacity of at least 56 and a legitimate PC, a read after a capture and
\* restart returns true, bytes 0..23 are the six fault-status values and bytes 24..55
\* the eight frame words R0, R1, R2, R3, R12, LR, PC, PSR.
C2_RoundTrip ==
    (lastCall = "read" /\ Captured /\ Len(buffer) >= 56 /\ capacity >= 56
        /\ frame[7] # Sentinel)
        => /\ readRet = TRUE
           /\ \A k \in 0..5 : WordAt(buffer, 4 * k) = SCB[k + 1]
           /\ \A k \in 0..7 : WordAt(buffer, SizeofSCB + 4 * k) = frame[k + 1]

----------------------------------------------------------------------------
(* C3 *)

----------------------------------------------------------------------------
(* C4 *)

\* C4: no erase or write of a capture touches an address outside
\* [base, base + capacity), whatever the stack pointer, stack bound and capacity.
C4_WithinRegion == ~overrun

----------------------------------------------------------------------------
(* C5 *)

\* C5: getStackBase returns faultStackPointer + 1024 when the faulting stack pointer
\* equals the live PSP, and _estack for every other stack pointer.
C5_ContextLocator ==
    CaptureDone =>
        /\ (sp = PSP => stackBase = Add32(sp, <<0, 1024>>))
        /\ (sp # PSP => stackBase = estack)

C5_Witness == pc = "end" /\ sp = PSP /\ stackBase # estack

----------------------------------------------------------------------------
(* C6 *)

\* C6: a capture never hands control back: in a normal build it leads to the system
\* reset, with the record written; in a DEBUG build it leads to the halted state,
\* stays there, and the reset is never reached.
C6_NeverReturns ==
    /\ (pc = "erase" /\ ~DEBUG) ~> (pc = "reset" /\ slot = "captured")
    /\ (pc = "erase" /\ DEBUG) ~> [](pc = "halted")
    /\ [](DEBUG => pc # "reset")
    /\ [][(pc \in {"erase", "scb", "stack", "end", "halted"}) => (pc' # "run")]_vars

C6_Witness == pc = "reset" /\ Captured /\ ~DEBUG

----------------------------------------------------------------------------
(* C7 *)

\* C7: every capture erases the whole region before its first write, so the region
\* holds the most recent record only and every byte beyond its written length holds
\* the erased pattern.
C7_SingleSlot ==
    /\ pc = "scb" => ErasedFrom(0)
    /\ Captured =>
          \A i \in 1..capacity :
              region[i] = IF i <= SizeofSCB THEN SCBByte(SCB, i - 1)
                          ELSE IF i <= RecordLen THEN StackByte(frame, seed, i - 1 - SizeofSCB)
                          ELSE ErasedByte

\* a shorter record written over a longer one
C7_Witness ==
    /\ Captured /\ pc = "reset"
    /\ RecordLen < prevLen /\ RecordLen < capacity

----------------------------------------------------------------------------
(* C8 *)

\* C8 as stated: the fault-status registers are read as the first step of the capture,
\* before the region is erased: while they are still unread the capture has not
\* touched the region.
C8_SnapshotFirst == pc \in {"erase", "scb"} => slot # "capturing"

\* C8 amended: the capture erases the region first and reads the fault-status
\* registers next, straight into its first write; the persisted Fault Status Block
\* holds the register values of the entry to the capture.
C8_EraseThenStatus ==
    /\ pc = "scb" => (slot = "capturing" /\ ErasedFrom(0))
    /\ (pc = "stack" \/ CaptureDone) =>
          \A i \in 1..capacity : i <= SizeofSCB => region[i] = SCBByte(SCB, i - 1)
    /\ (CaptureDone /\ capacity >= SizeofSCB) =>
          \A k \in 0..5 : WordAt(region, 4 * k) = SCB[k + 1]

C8_Witness ==
    /\ pc = "stack" /\ capacity >= SizeofSCB /\ prevLen > 0
    /\ \A k \in 0..5 : WordAt(region, 4 * k) = SCB[k + 1]
    /\ ErasedFrom(SizeofSCB)

----------------------------------------------------------------------------
(* C9 *)

\* C9: when the stack bound is below the faulting stack pointer the capture takes the
\* stack size as zero and persists no byte after the Fault Status Block.
C9_ClampCorrupt ==
    (Captured /\ capacity >= SizeofSCB /\ Lt32(stackBase, sp))
        => (NumOfbyteToWrite = ToU32(0) /\ ErasedFrom(SizeofSCB))

----------------------------------------------------------------------------
(* C10 *)

\* C10: with a capacity of at least 56 a capture persists the whole 56-byte header,
\* the full Core Register Block included, for every stack bound.
C10_FullHeader ==
    (Captured /\ capacity >= 56)
        => /\ \A k \in 0..5 : WordAt(region, 4 * k) = SCB[k + 1]
           /\ \A k \in 0..7 : WordAt(region, SizeofSCB + 4 * k) = frame[k + 1]

====
